---------------------------- MODULE Spec2Model ----------------------------
(***************************************************************************)
(* Emotion-resolution pipeline of predict.py: the CPU emotion classifier   *)
(* (CPUQwenEmotion), its fallback wrapper (SafeQwenEmotion), the parser of *)
(* the explicit emotion vector (_parse_vector) and Predictor.setup /       *)
(* Predictor.predict.                                                      *)
(*                                                                         *)
(* Strings are sequences of lexemes: each element is a piece of text whose *)
(* characters all fall in the same class of the code that reads it, so     *)
(* concatenating sequences is concatenating the strings they spell.        *)
(* Floating-point scores are integers in thousandths (1.2 is 1200).        *)
(***************************************************************************)
EXTENDS Integers, Sequences, FiniteSets, TLC

VARIABLES
    cuda,           \* torch.cuda.is_available()
    classes,        \* the classifier classes defined so far
    QwenEmotion,    \* infer_v2.QwenEmotion: the installed class (index into classes, 0: None)
    setups,         \* completed runs of Predictor.setup
    ctor_ok,        \* whether the classifier's own construction succeeded in the last setup
    setup_exc,      \* whether an exception escaped the last setup
    tts,            \* self.tts, with its classifier instance qwen_emo
    failed_before,  \* an earlier inference call on this instance had its inner call raise
    call,           \* the last inference call on self.tts.qwen_emo
    request,        \* the last predict request
    emotion_values, \* what _parse_vector made of its emotion_vector
    infer_args,     \* what that request handed to self.tts.infer
    synthesis,      \* what self.tts.infer did with it
    predict_out,    \* how that request ended
    pv_raw,         \* _parse_vector: the argument raw
    pv_out,         \* _parse_vector: its outcome, or Pending
    cpu_text,       \* CPUQwenEmotion.inference: the argument text_input
    cpu_content,    \* the decoded answer of the model (content, line 98)
    cpu_parsed,     \* parsed, as lines 99-105 leave it
    cpu_swapped,    \* parsed, as handed to convert (after lines 106-108)
    cpu_result      \* what inference returned or raised, or CpuPending

mainvars == <<cuda, classes, QwenEmotion, setups, ctor_ok, setup_exc, tts, failed_before,
              call, request, emotion_values, infer_args, synthesis, predict_out>>
pvars == <<pv_raw, pv_out>>
cpuvars == <<cpu_text, cpu_content, cpu_parsed, cpu_swapped, cpu_result>>
vars == <<mainvars, pvars, cpuvars>>

\* Optional[str]: None, or a string.
None == [some |-> FALSE, s |-> <<>>]
Some(s) == [some |-> TRUE, s |-> s]

\* Thousandths per unit: 1.0 is Unit.
Unit == 10 * 10 * 10

\* {"calm": 1.0}
Neutral == [l \in {"calm"} |-> Unit]
\* No result (the call raised, or was not made).
NoResult == [l \in {"none"} |-> 0]

SeqsUpTo(A, n) == UNION {[1..k -> A] : k \in 0..n}

SetMin(S) == CHOOSE x \in S : \A y \in S : x <= y
SetMax(S) == CHOOSE x \in S : \A y \in S : x >= y

---------------------------------------------------------------------------
(* str primitives used by _parse_vector and predict *)

\* The whitespace lexeme (a blank).
WS == " "

\* str.strip(): leading and trailing whitespace removed.
Strip(s) ==
    LET idx == {i \in 1..Len(s) : s[i] # WS}
    IN  IF idx = {} THEN <<>> ELSE SubSeq(s, SetMin(idx), SetMax(idx))

\* str.split(sep): the pieces between the separators (always at least one).
RECURSIVE Split(_, _)
Split(s, sep) ==
    LET at == {i \in 1..Len(s) : s[i] = sep}
    IN  IF at = {} THEN <<s>>
        ELSE LET i == SetMin(at)
             IN  <<SubSeq(s, 1, i - 1)>> \o Split(SubSeq(s, i + 1, Len(s)), sep)

\* The numeric lexemes and the float each spells.
NumberValue == [x \in {"1.5"} |-> 1500]
\* The quoted-string lexemes: JSON strings, with float(content) where the
\* content is numeric and None where it is not.
StringFloat == [x \in {"\"a\"", "\"2\""} |->
                   IF x = "\"2\"" THEN [ok |-> TRUE, v |-> 2000] ELSE [ok |-> FALSE, v |-> 0]]

\* float(str): the text, stripped, must be one numeric literal.
float_of_str(tok) ==
    LET t == Strip(tok)
    IN  IF Len(t) = 1 /\ t[1] \in DOMAIN NumberValue
        THEN [ok |-> TRUE, v |-> NumberValue[t[1]]]
        ELSE [ok |-> FALSE, v |-> 0]

---------------------------------------------------------------------------
(* json.loads on text that starts with "[" *)

SkipWs(s, i) ==
    LET stop == {j \in i..Len(s) : s[j] # WS}
    IN  IF stop = {} THEN Len(s) + 1 ELSE SetMin(stop)

JsonFail == [ok |-> FALSE, val |-> [t |-> "none", v |-> 0], next |-> 0]

RECURSIVE JsonValue(_, _)
RECURSIVE JsonArrayItems(_, _)

\* The elements of an array from position i (just after "[" or ","), up to
\* and including the closing "]".
JsonArrayItems(s, i) ==
    LET r == JsonValue(s, SkipWs(s, i))
    IN  IF ~r.ok THEN [ok |-> FALSE, items |-> <<>>, next |-> 0]
        ELSE LET j == SkipWs(s, r.next)
             IN  IF j > Len(s) THEN [ok |-> FALSE, items |-> <<>>, next |-> 0]
                 ELSE IF s[j] = "]" THEN [ok |-> TRUE, items |-> <<r.val>>, next |-> j + 1]
                 ELSE IF s[j] = ","
                 THEN LET rest == JsonArrayItems(s, j + 1)
                      IN  IF rest.ok
                          THEN [ok |-> TRUE, items |-> <<r.val>> \o rest.items, next |-> rest.next]
                          ELSE [ok |-> FALSE, items |-> <<>>, next |-> 0]
                 ELSE [ok |-> FALSE, items |-> <<>>, next |-> 0]

\* One JSON value at position i: a number, a string, null or an array.
JsonValue(s, i) ==
    IF i > Len(s) THEN JsonFail
    ELSE IF s[i] \in DOMAIN NumberValue
    THEN [ok |-> TRUE, val |-> [t |-> "num", v |-> NumberValue[s[i]]], next |-> i + 1]
    ELSE IF s[i] \in DOMAIN StringFloat
    THEN [ok |-> TRUE,
          val |-> IF StringFloat[s[i]].ok THEN [t |-> "numstr", v |-> StringFloat[s[i]].v]
                  ELSE [t |-> "str", v |-> 0],
          next |-> i + 1]
    ELSE IF s[i] = "null"
    THEN [ok |-> TRUE, val |-> [t |-> "null", v |-> 0], next |-> i + 1]
    ELSE IF s[i] = "["
    THEN LET j == SkipWs(s, i + 1)
         IN  IF j <= Len(s) /\ s[j] = "]"
             THEN [ok |-> TRUE, val |-> [t |-> "list", v |-> 0], next |-> j + 1]
             ELSE LET r == JsonArrayItems(s, i + 1)
                  IN  IF r.ok
                      THEN [ok |-> TRUE, val |-> [t |-> "list", v |-> Len(r.items)], next |-> r.next]
                      ELSE JsonFail
    ELSE JsonFail

\* json.loads(s) for s starting with "[": the list of elements, or
\* JSONDecodeError (ok = FALSE), also when text follows the array.
json_loads_array(s) ==
    LET j == SkipWs(s, 2)
    IN  IF j <= Len(s) /\ s[j] = "]"
        THEN [ok |-> SkipWs(s, j + 1) > Len(s), items |-> <<>>]
        ELSE LET r == JsonArrayItems(s, 2)
             IN  [ok |-> r.ok /\ SkipWs(s, r.next) > Len(s), items |-> r.items]

---------------------------------------------------------------------------
(* _parse_vector *)

ReturnNone == [kind |-> "None", exc |-> "", value |-> <<>>]
ReturnValue(v) == [kind |-> "value", exc |-> "", value |-> v]
Raise(e) == [kind |-> "error", exc |-> e, value |-> <<>>]
\* Not called yet.
Pending == [kind |-> "pending", exc |-> "", value |-> <<>>]

\* The ValueError of line 169, "Could not parse emotion_vector; ...".
InvalidVectorFormat == "ValueError: Could not parse emotion_vector"
\* What float(val) of line 172 raises by itself.
BareValueError == "ValueError: could not convert string to float"
BareTypeError == "TypeError: float() argument must be a string or a real number"

\* float(val) for one element of the parsed list.
float_of_value(val) ==
    IF val.t \in {"num", "numstr"} THEN [ok |-> TRUE, v |-> val.v, exc |-> ""]
    ELSE IF val.t = "str" THEN [ok |-> FALSE, v |-> 0, exc |-> BareValueError]
    ELSE [ok |-> FALSE, v |-> 0, exc |-> BareTypeError]

\* [float(tok) for tok in raw.split(",") if tok.strip()], inside the try.
FloatTokens(r) ==
    LET toks == SelectSeq(Split(r, ","), LAMBDA tok : Strip(tok) # <<>>)
        conv == [k \in 1..Len(toks) |-> float_of_str(toks[k])]
    IN  IF \E k \in 1..Len(toks) : ~conv[k].ok
        THEN [ok |-> FALSE, items |-> <<>>]
        ELSE [ok |-> TRUE,
              items |-> [k \in 1..Len(toks) |-> [t |-> "num", v |-> conv[k].v]]]

\* [float(val) for val in values], outside the try: the first element that
\* float() refuses decides the exception.
FloatAll(values) ==
    LET conv == [k \in 1..Len(values) |-> float_of_value(values[k])]
        bad == {k \in 1..Len(values) : ~conv[k].ok}
    IN  IF bad # {} THEN Raise(conv[SetMin(bad)].exc)
        ELSE ReturnValue([k \in 1..Len(values) |-> conv[k].v])

_parse_vector(raw) ==
    IF ~raw.some \/ raw.s = <<>> THEN ReturnNone
    ELSE LET r == Strip(raw.s)
         IN  IF r = <<>> THEN ReturnNone
             ELSE LET values == IF r[1] = "[" THEN json_loads_array(r) ELSE FloatTokens(r)
                  IN  IF ~values.ok THEN Raise(InvalidVectorFormat)
                      ELSE IF values.items = <<>> THEN ReturnNone
                      ELSE FloatAll(values.items)

---------------------------------------------------------------------------
(* CPUQwenEmotion.  The classifier's own label keys are Chinese words,     *)
(* written here in pinyin: gaoxing, fennu, beishang, kongju, fangan,       *)
(* diluo, jingya, ziran.                                                   *)

desired_vector_order ==
    <<"gaoxing", "fennu", "beishang", "kongju", "fangan", "diluo", "jingya", "ziran">>

cn_key_to_en ==
    [k \in {"gaoxing", "fennu", "beishang", "kongju", "fangan", "diluo", "jingya", "ziran"} |->
        CASE k = "gaoxing" -> "happy"
          [] k = "fennu" -> "angry"
          [] k = "beishang" -> "sad"
          [] k = "kongju" -> "afraid"
          [] k = "fangan" -> "disgusted"
          [] k = "diluo" -> "melancholic"
          [] k = "jingya" -> "surprised"
          [] k = "ziran" -> "calm"]

\* The eight labels of a converted result.
Labels == {cn_key_to_en[desired_vector_order[i]] : i \in 1..Len(desired_vector_order)}

\* The key of a label.
CnKey(en) == CHOOSE k \in DOMAIN cn_key_to_en : cn_key_to_en[k] = en

\* The trigger words, each as the lexemes that spell it.
melancholic_words ==
    {<<"diluo">>, <<"melanchol", "y">>, <<"melanchol", "ic">>,
     <<"depress", "ion">>, <<"depress", "ed">>, <<"gloomy">>}

max_score == 1200
min_score == 0

\* dict.get(key, default)
Get(d, key, default) == IF key \in DOMAIN d THEN d[key] ELSE default

\* The empty dict.
EmptyDict == [k \in {} |-> 0]

\* max(min_score, min(max_score, value))
clamp_score(value) ==
    LET upper == IF value < max_score THEN value ELSE max_score
    IN  IF upper > min_score THEN upper ELSE min_score

\* A variant without the default: an all-zero result stays all-zero.
ConvertNoDefault(content) ==
    [en \in Labels |-> clamp_score(Get(content, CnKey(en), 0))]

\* CPUQwenEmotion.convert
convert(content) ==
    LET emotion_dict == [en \in Labels |-> clamp_score(Get(content, CnKey(en), 0))]
    IN  IF \A en \in Labels : emotion_dict[en] <= 0
        THEN [emotion_dict EXCEPT !["calm"] = Unit]
        ELSE emotion_dict

(* The decoded answer: either a JSON object of numbers (given as the dict  *)
(* json.loads makes of it) or other text, as a sequence of lexemes.        *)

ObjectContent(d) == [object |-> TRUE, dict |-> d, chars |-> <<>>]
TextContent(s) == [object |-> FALSE, dict |-> EmptyDict, chars |-> s]

IsDigit(c) == c \in {"1"}
\* The classes of the pattern ([^\s":.,]+?)"?\s*:\s*([\d.]+)
IsSpace(c) == c = WS
IsLabelChar(c) == c \notin {WS, "\"", ":", ".", ","}
IsNumberChar(c) == IsDigit(c) \/ c = "."

\* Whether text is a JSON document: with the lexemes at hand, a number or
\* a string literal, blanks around it allowed.
IsJsonScalar(s) ==
    LET t == Strip(s)
        n == Len(t)
        dots == {i \in 1..n : t[i] = "."}
    IN  /\ n > 0
        /\ \/ /\ \A i \in 1..n : IsNumberChar(t[i])
              /\ Cardinality(dots) <= 1
              /\ \A i \in dots : 1 < i /\ i < n
           \/ /\ n >= 2
              /\ t[1] = "\"" /\ t[n] = "\""
              /\ \A i \in 2..(n - 1) : t[i] # "\""

\* The first position from i on whose lexeme is not in the class (Len+1 if none).
SpaceEnd(s, i) ==
    LET stop == {j \in i..Len(s) : ~IsSpace(s[j])}
    IN  IF stop = {} THEN Len(s) + 1 ELSE SetMin(stop)
LabelEnd(s, i) ==
    LET stop == {j \in i..Len(s) : ~IsLabelChar(s[j])}
    IN  IF stop = {} THEN Len(s) + 1 ELSE SetMin(stop)
NumberEnd(s, i) ==
    LET stop == {j \in i..Len(s) : ~IsNumberChar(s[j])}
    IN  IF stop = {} THEN Len(s) + 1 ELSE SetMin(stop)

NoMatch == [ok |-> FALSE, label |-> <<>>, number |-> <<>>, next |-> 0]

\* The match of the pattern that starts at position i, if there is one.
\* The label group stops where the run of label characters stops: what
\* follows it in the pattern starts with a character no label holds.
MatchAt(s, i) ==
    LET k == LabelEnd(s, i)
        q == IF k <= Len(s) /\ s[k] = "\"" THEN k + 1 ELSE k
        c == SpaceEnd(s, q)
    IN  IF k = i \/ c > Len(s) THEN NoMatch
        ELSE IF s[c] # ":" THEN NoMatch
        ELSE LET n == SpaceEnd(s, c + 1)
                 e == NumberEnd(s, n)
             IN  IF e = n THEN NoMatch
                 ELSE [ok |-> TRUE, label |-> SubSeq(s, i, k - 1),
                       number |-> SubSeq(s, n, e - 1), next |-> e]

\* re.finditer(pattern, content): the matches from position i on, left to
\* right, not overlapping.
RECURSIVE FindIter(_, _)
FindIter(s, i) ==
    IF i > Len(s) THEN <<>>
    ELSE LET m == MatchAt(s, i)
         IN  IF m.ok THEN <<m>> \o FindIter(s, m.next) ELSE FindIter(s, i + 1)

\* The string a sequence of lexemes spells.
RECURSIVE Spell(_)
Spell(s) == IF s = <<>> THEN "" ELSE Head(s) \o Spell(Tail(s))

\* The value of a run of digits.
RECURSIVE DigitsValue(_)
DigitsValue(s) ==
    IF s = <<>> THEN 0
    ELSE 10 * DigitsValue(SubSeq(s, 1, Len(s) - 1)) + 1

\* The first three decimals of a run of digits, in thousandths.
Thousandths(s) ==
    (IF Len(s) >= 1 THEN 100 ELSE 0) + (IF Len(s) >= 2 THEN 10 ELSE 0)
        + (IF Len(s) >= 3 THEN 1 ELSE 0)

\* float(str) for text made of digits and dots: at most one dot and at
\* least one digit, or ValueError.
float_of_number(s) ==
    LET dots == {i \in 1..Len(s) : s[i] = "."}
    IN  IF Cardinality(dots) > 1 \/ Cardinality(dots) = Len(s)
        THEN [ok |-> FALSE, v |-> 0]
        ELSE IF dots = {} THEN [ok |-> TRUE, v |-> DigitsValue(s) * Unit]
        ELSE LET d == SetMin(dots)
             IN  [ok |-> TRUE,
                  v |-> DigitsValue(SubSeq(s, 1, d - 1)) * Unit
                        + Thousandths(SubSeq(s, d + 1, Len(s)))]

ParsedOk(d) == [ok |-> TRUE, exc |-> "", dict |-> d]
ParsedRaise(e) == [ok |-> FALSE, exc |-> e, dict |-> EmptyDict]
\* json.loads returned something that is no dict.
ParsedScalar == [ok |-> TRUE, exc |-> "scalar", dict |-> EmptyDict]

\* {match.group(1): float(match.group(2)) for match in matches}: a later
\* match replaces an earlier one of the same label; the first number
\* float() refuses raises ValueError.
RECURSIVE ScanDict(_, _)
ScanDict(matches, acc) ==
    IF matches = <<>> THEN ParsedOk(acc)
    ELSE LET m == Head(matches)
             f == float_of_number(m.number)
         IN  IF ~f.ok THEN ParsedRaise(BareValueError)
             ELSE ScanDict(Tail(matches), (Spell(m.label) :> f.v) @@ acc)

\* Lines 99-105: json.loads(content), and the pattern scan when it raises
\* JSONDecodeError.
parse_content(content) ==
    IF content.object THEN ParsedOk(content.dict)
    ELSE IF IsJsonScalar(content.chars) THEN ParsedScalar
    ELSE ScanDict(FindIter(content.chars, 1), EmptyDict)

\* str.lower(), lexeme by lexeme.
LowerLexeme(c) ==
    CASE c = "Gloomy" -> "gloomy"
      [] c = "GLOOMY" -> "gloomy"
      [] c = "Depress" -> "depress"
      [] OTHER -> c
Lower(s) == [i \in 1..Len(s) |-> LowerLexeme(s[i])]

\* word in text
Contains(text, word) ==
    \E i \in 1..(Len(text) - Len(word) + 1) : SubSeq(text, i, i + Len(word) - 1) = word

\* A variant that looks for the trigger words without lower-casing.
HasTriggerCaseSensitive(text_input) ==
    \E word \in melancholic_words : Contains(text_input, word)

\* Lines 106-107: any(word in lower for word in self.melancholic_words)
has_melancholic_word(text_input) ==
    \E word \in melancholic_words : Contains(Lower(text_input), word)

\* Line 108: the scores of beishang and diluo change places.
swap_sad_melancholic(parsed) ==
    [k \in DOMAIN parsed \cup {"beishang", "diluo"} |->
        IF k = "beishang" THEN Get(parsed, "diluo", 0)
        ELSE IF k = "diluo" THEN Get(parsed, "beishang", 0)
        ELSE parsed[k]]

\* Lines 106-108
disambiguate(text_input, parsed) ==
    IF has_melancholic_word(text_input) THEN swap_sad_melancholic(parsed) ELSE parsed

CpuReturn(v) == [kind |-> "returned", exc |-> "", vector |-> v]
CpuRaise(e) == [kind |-> "raised", exc |-> e, vector |-> NoResult]
CpuPending == [kind |-> "pending", exc |-> "", vector |-> NoResult]

AttributeError == "AttributeError: object has no attribute 'get'"

\* Longest text_input, in lexemes.
MaxCpuTextLen == 2
\* Most keys of a JSON answer.
MaxKeys == 2
\* Longest answer that is not a JSON object, in lexemes.
MaxContentLen == 3

CpuTextAlphabet == {"Gloomy", "depress", "ed"}
ContentAlphabet == {"diluo", "\"", ":", ".", "1", WS, ","}
\* The keys and the scores of the JSON answers explored.
AnswerKeys == {"gaoxing", "beishang", "diluo", "ziran"}
AnswerScores == {-500, 0, 700, 2000}

Dicts(keys, n) ==
    UNION {[ks -> AnswerScores] : ks \in {x \in SUBSET keys : Cardinality(x) <= n}}

Contents ==
    {ObjectContent(d) : d \in Dicts(AnswerKeys, MaxKeys)}
        \cup {TextContent(s) : s \in SeqsUpTo(ContentAlphabet, MaxContentLen)}

CpuIdle ==
    /\ cpu_text = <<>>
    /\ cpu_content = TextContent(<<>>)
    /\ cpu_parsed = ParsedRaise("")
    /\ cpu_swapped = EmptyDict
    /\ cpu_result = CpuPending

\* CPUQwenEmotion.inference(text_input), the model having answered
\* cpu_content.
CpuInference ==
    /\ cpu_result = CpuPending
    /\ cpu_parsed' = parse_content(cpu_content)
    /\ cpu_swapped' = IF cpu_parsed'.ok /\ cpu_parsed'.exc = ""
                      THEN disambiguate(cpu_text, cpu_parsed'.dict)
                      ELSE EmptyDict
    /\ cpu_result' = IF ~cpu_parsed'.ok THEN CpuRaise(cpu_parsed'.exc)
                     ELSE IF cpu_parsed'.exc = "scalar" THEN CpuRaise(AttributeError)
                     ELSE CpuReturn(convert(cpu_swapped'))
    /\ UNCHANGED <<cpu_text, cpu_content, mainvars, pvars>>

---------------------------------------------------------------------------
(* The classifier classes and infer_v2.QwenEmotion *)

\* The class infer_v2 defines.
OriginalClass == [kind |-> "QwenEmotion", wraps |-> 0, is_safe_wrapper |-> FALSE]

\* The module state the two patch functions act on.
Module(cs, installed) == [classes |-> cs, QwenEmotion |-> installed]

\* Defines `cls` and assigns it to infer_v2.QwenEmotion.
Install(m, cls) ==
    Module(Append(m.classes, cls), Len(m.classes) + 1)

_maybe_patch_qwen_for_cpu(m, cuda_available) ==
    IF cuda_available THEN m
    ELSE Install(m, [kind |-> "CPUQwenEmotion", wraps |-> 0, is_safe_wrapper |-> FALSE])

\* A variant without the marker check: wraps whatever is installed.
WrapWithoutMarkerCheck(m) ==
    IF m.QwenEmotion = 0 THEN m
    ELSE Install(m, [kind |-> "SafeQwenEmotion", wraps |-> m.QwenEmotion,
                     is_safe_wrapper |-> TRUE])

_wrap_qwen_with_fallback(m) ==
    IF m.QwenEmotion = 0 THEN m
    ELSE IF m.classes[m.QwenEmotion].is_safe_wrapper THEN m
    ELSE Install(m, [kind |-> "SafeQwenEmotion", wraps |-> m.QwenEmotion,
                     is_safe_wrapper |-> TRUE])

---------------------------------------------------------------------------
(* Classifier instances.  An instance is the sequence of its layers, the  *)
(* outermost first: Tail(self) is self._inner, and <<>> there is None.     *)

Layer(c, exc) == [cls |-> c, inner_exc |-> exc]


RECURSIVE New(_, _, _)

\* SafeQwenEmotion.__init__: original_cls(model_dir) inside try/except.
SafeQwenEmotion_init(cs, c, inner_ok) ==
    LET r == New(cs, cs[c].wraps, inner_ok)
    IN  IF r.raised THEN [raised |-> FALSE, obj |-> <<Layer(c, TRUE)>>]
        ELSE [raised |-> FALSE, obj |-> <<Layer(c, FALSE)>> \o r.obj]

\* cls(model_dir) for class c; inner_ok says whether the classifier proper
\* (tokenizer and model loading) can be constructed.
New(cs, c, inner_ok) ==
    IF cs[c].is_safe_wrapper THEN SafeQwenEmotion_init(cs, c, inner_ok)
    ELSE IF inner_ok THEN [raised |-> FALSE, obj |-> <<Layer(c, FALSE)>>]
    ELSE [raised |-> TRUE, obj |-> <<>>]

\* What the classifier proper does on one call: raise, or return a mapping.
InnerRaises == [raises |-> TRUE, result |-> NoResult]
InnerReturns(r) == [raises |-> FALSE, result |-> r]
OneHot(l) == [x \in Labels |-> IF x = l THEN Unit ELSE 0]
InnerOutcomes == {InnerRaises} \cup {InnerReturns(OneHot(l)) : l \in {"happy", "sad"}}

Returned(self, r, called, ctor) ==
    [raised |-> FALSE, result |-> r, inner_called |-> called, constructed |-> ctor, self |-> self]
Raised(self, called, ctor) ==
    [raised |-> TRUE, result |-> NoResult, inner_called |-> called, constructed |-> ctor, self |-> self]

RECURSIVE Inference(_, _, _, _)

\* A variant that drops the inner classifier once it has raised.
SafeInferenceDropInner(cs, self, text_input, io) ==
    IF Tail(self) = <<>> THEN Returned(self, Neutral, FALSE, FALSE)
    ELSE LET r == Inference(cs, Tail(self), text_input, io)
         IN  IF r.raised THEN Returned(<<Head(self)>>, Neutral, r.inner_called, r.constructed)
             ELSE Returned(<<Head(self)>> \o r.self, r.result, r.inner_called, r.constructed)

\* A variant that tries to construct the inner classifier again when it is
\* missing, and delegates to it.
SafeInferenceRetry(cs, self, text_input, io) ==
    IF Tail(self) = <<>>
    THEN IF io.raises THEN Returned(self, Neutral, TRUE, TRUE)
         ELSE Returned(<<Layer(Head(self).cls, FALSE), Layer(cs[Head(self).cls].wraps, FALSE)>>,
                       io.result, TRUE, TRUE)
    ELSE LET r == Inference(cs, Tail(self), text_input, io)
         IN  IF r.raised THEN Returned(<<Head(self)>> \o r.self, Neutral, r.inner_called, r.constructed)
             ELSE Returned(<<Head(self)>> \o r.self, r.result, r.inner_called, r.constructed)

\* SafeQwenEmotion.inference
SafeQwenEmotion_inference(cs, self, text_input, io) ==
    IF Tail(self) = <<>> THEN Returned(self, Neutral, FALSE, FALSE)
    ELSE LET r == Inference(cs, Tail(self), text_input, io)
         IN  IF r.raised THEN Returned(<<Head(self)>> \o r.self, Neutral, r.inner_called, r.constructed)
             ELSE Returned(<<Head(self)>> \o r.self, r.result, r.inner_called, r.constructed)

\* self.inference(text_input) on an instance of any installed class.
Inference(cs, self, text_input, io) ==
    IF cs[Head(self).cls].is_safe_wrapper
    THEN SafeQwenEmotion_inference(cs, self, text_input, io)
    ELSE IF io.raises THEN Raised(self, TRUE, FALSE)
    ELSE Returned(self, io.result, TRUE, FALSE)

---------------------------------------------------------------------------
(* Predictor.setup and Predictor.predict *)

NoCall ==
    [made |-> FALSE, text |-> <<>>, inner |-> InnerRaises, raised |-> FALSE,
     result |-> NoResult, inner_called |-> FALSE, constructed |-> FALSE, degraded |-> FALSE]

\* The record of one inference call on `self`, with what it returned.
CallRecord(self, text_input, io, r) ==
    [made |-> TRUE, text |-> text_input, inner |-> io, raised |-> r.raised,
     result |-> r.result, inner_called |-> r.inner_called,
     constructed |-> r.constructed, degraded |-> Tail(self) = <<>>]

NoRequest == [made |-> FALSE, emotion_vector |-> None, emotion_text |-> None]
NoVector == [some |-> FALSE, v |-> <<>>]
NotCalled ==
    [called |-> FALSE, emo_vector |-> NoVector, use_emo_text |-> FALSE, emo_text |-> None]
NoOutcome == [status |-> "none", exc |-> ""]

\* self.tts.infer(...) as far as the emotion inputs go: with use_emo_text
\* the synthesis engine asks its classifier instance for the emotion of
\* emo_text, and an exception of that call is an exception of infer.
IndexTTS2_infer(cs, qwen_emo, args, io) ==
    IF args.called /\ args.use_emo_text
    THEN LET r == Inference(cs, qwen_emo, args.emo_text.s, io)
         IN  [raised |-> r.raised, qwen_emo |-> r.self,
              call |-> CallRecord(qwen_emo, args.emo_text.s, io, r)]
    ELSE [raised |-> FALSE, qwen_emo |-> qwen_emo, call |-> NoCall]

NoSynthesis == [raised |-> FALSE, qwen_emo |-> <<>>, call |-> NoCall]

\* IndexTTS2(...): constructs its classifier from the installed class.
IndexTTS2_init(cs, installed, inner_ok) ==
    New(cs, installed, inner_ok)

\* A variant that treats a malformed vector as no vector and goes on.
InferArgsSwallowParseError(values, emotion_text) ==
    [called |-> TRUE,
     emo_vector |-> IF values.kind = "value"
                    THEN [some |-> TRUE, v |-> values.value] ELSE NoVector,
     use_emo_text |-> emotion_text.some /\ Strip(emotion_text.s) # <<>>,
     emo_text |-> emotion_text]

\* A variant that asks for text classification whenever emotion_text is
\* given, blank or not.
InferArgsNoStrip(values, emotion_text) ==
    IF values.kind = "error" THEN NotCalled
    ELSE [called |-> TRUE,
          emo_vector |-> IF values.kind = "value"
                         THEN [some |-> TRUE, v |-> values.value] ELSE NoVector,
          use_emo_text |-> emotion_text.some,
          emo_text |-> emotion_text]

\* predict, lines 235-258: the emotion arguments of the self.tts.infer call,
\* which is not reached when _parse_vector raised at line 235.
predict_infer_args(values, emotion_text) ==
    IF values.kind = "error" THEN NotCalled
    ELSE [called |-> TRUE,
          emo_vector |-> IF values.kind = "value"
                         THEN [some |-> TRUE, v |-> values.value] ELSE NoVector,
          use_emo_text |-> emotion_text.some /\ Strip(emotion_text.s) # <<>>,
          emo_text |-> emotion_text]

\* How predict ends: with the exception of line 235, with the exception of
\* self.tts.infer, or with the path infer returned.
predict_outcome(values, synth) ==
    IF values.kind = "error" THEN [status |-> "error", exc |-> values.exc]
    ELSE IF synth.raised THEN [status |-> "error", exc |-> "ClassificationFailure"]
    ELSE [status |-> "returned", exc |-> ""]

\* Runs of setup explored.
MaxSetups == 2
\* Longest emotion_vector of a request, in lexemes.
MaxReqLen == 2
\* Longest emotion_text, in lexemes.
MaxTextLen == 1

RawAlphabet == {"[", "]", ",", WS, "1.5", "x", "\"a\"", "\"2\"", "null"}
TextAlphabet == {WS, "sad"}

OptionalStrings(A, n) == {None} \cup {Some(s) : s \in SeqsUpTo(A, n)}

NoTts == [set |-> FALSE, qwen_emo |-> <<>>]

MainInit ==
    /\ cuda \in BOOLEAN
    /\ classes = <<OriginalClass>>
    /\ QwenEmotion = 1
    /\ setups = 0
    /\ ctor_ok = TRUE
    /\ setup_exc = FALSE
    /\ tts = NoTts
    /\ failed_before = FALSE
    /\ call = NoCall
    /\ request = NoRequest
    /\ emotion_values = Pending
    /\ infer_args = NotCalled
    /\ synthesis = NoSynthesis
    /\ predict_out = NoOutcome

\* No request is being served: the records of the last one are dropped.
Idle == ~request.made /\ ~call.made

\* Predictor.setup: patch, wrap, then construct the engine, which constructs
\* its classifier from the installed class.
Setup ==
    /\ setups < MaxSetups
    /\ \E inner_ok \in BOOLEAN :
        /\ LET m == _wrap_qwen_with_fallback(
                        _maybe_patch_qwen_for_cpu(Module(classes, QwenEmotion), cuda))
               t == IndexTTS2_init(m.classes, m.QwenEmotion, inner_ok)
           IN  /\ classes' = m.classes
               /\ QwenEmotion' = m.QwenEmotion
               /\ setup_exc' = t.raised
               /\ tts' = IF t.raised THEN tts ELSE [set |-> TRUE, qwen_emo |-> t.obj]
        /\ setups' = setups + 1
        /\ ctor_ok' = inner_ok
        /\ failed_before' = FALSE
        /\ call' = NoCall
        /\ request' = NoRequest
        /\ emotion_values' = Pending
        /\ infer_args' = NotCalled
        /\ synthesis' = NoSynthesis
        /\ predict_out' = NoOutcome
        /\ UNCHANGED <<cuda, pvars, cpuvars>>

\* self.tts.qwen_emo.inference(text_input), called directly.
Infer ==
    /\ tts.set
    /\ Idle
    /\ \E text_input \in SeqsUpTo(TextAlphabet, MaxTextLen), io \in InnerOutcomes :
        /\ LET r == Inference(classes, tts.qwen_emo, text_input, io)
           IN  /\ call' = CallRecord(tts.qwen_emo, text_input, io, r)
               /\ tts' = [tts EXCEPT !.qwen_emo = r.self]
        /\ failed_before' = (failed_before \/ (call'.inner_called /\ io.raises))
        /\ request' = NoRequest
        /\ emotion_values' = Pending
        /\ infer_args' = NotCalled
        /\ synthesis' = NoSynthesis
        /\ predict_out' = NoOutcome
        /\ UNCHANGED <<cuda, classes, QwenEmotion, setups, ctor_ok, setup_exc, pvars, cpuvars>>

\* Predictor.predict(...)
Predict ==
    /\ tts.set
    /\ Idle
    /\ \E emotion_vector \in OptionalStrings(RawAlphabet, MaxReqLen),
          emotion_text \in OptionalStrings(TextAlphabet, MaxTextLen),
          io \in InnerOutcomes :
        /\ request' = [made |-> TRUE, emotion_vector |-> emotion_vector,
                       emotion_text |-> emotion_text]
        /\ emotion_values' = _parse_vector(emotion_vector)
        /\ infer_args' = predict_infer_args(emotion_values', emotion_text)
        /\ synthesis' = IndexTTS2_infer(classes, tts.qwen_emo, infer_args', io)
        /\ call' = synthesis'.call
        /\ tts' = [tts EXCEPT !.qwen_emo = synthesis'.qwen_emo]
        /\ predict_out' = predict_outcome(emotion_values', synthesis')
        /\ failed_before' = (failed_before \/ (call'.made /\ call'.inner_called /\ io.raises))
        /\ UNCHANGED <<cuda, classes, QwenEmotion, setups, ctor_ok, setup_exc, pvars, cpuvars>>

\* The request is over: its result has gone back to the caller.
Return ==
    /\ ~Idle
    /\ call' = NoCall
    /\ request' = NoRequest
    /\ emotion_values' = Pending
    /\ infer_args' = NotCalled
    /\ synthesis' = NoSynthesis
    /\ predict_out' = NoOutcome
    /\ UNCHANGED <<cuda, classes, QwenEmotion, setups, ctor_ok, setup_exc, tts,
                   failed_before, pvars, cpuvars>>

ParseIdle == pv_raw = None /\ pv_out = Pending

Init == MainInit /\ ParseIdle /\ CpuIdle

Next == Setup \/ Infer \/ Predict \/ Return

Spec == Init /\ [][Next]_vars

---------------------------------------------------------------------------
(* Specification of _parse_vector alone *)

\* Longest raw emotion_vector, in lexemes.
MaxRawLen == 4

MainIdle ==
    /\ cuda = TRUE
    /\ classes = <<OriginalClass>>
    /\ QwenEmotion = 1
    /\ setups = 0
    /\ ctor_ok = TRUE
    /\ setup_exc = FALSE
    /\ tts = NoTts
    /\ failed_before = FALSE
    /\ call = NoCall
    /\ request = NoRequest
    /\ emotion_values = Pending
    /\ infer_args = NotCalled
    /\ synthesis = NoSynthesis
    /\ predict_out = NoOutcome


ParseInit ==
    /\ pv_raw \in OptionalStrings(RawAlphabet, MaxRawLen)
    /\ pv_out = Pending
    /\ MainIdle
    /\ CpuIdle

ParseVector ==
    /\ pv_out = Pending
    /\ pv_out' = _parse_vector(pv_raw)
    /\ UNCHANGED <<pv_raw, mainvars, cpuvars>>

SpecParse == ParseInit /\ [][ParseVector]_vars

---------------------------------------------------------------------------
(* Specification of CPUQwenEmotion.inference alone *)

CpuInit ==
    /\ cpu_text \in SeqsUpTo(CpuTextAlphabet, MaxCpuTextLen)
    /\ cpu_content \in Contents
    /\ cpu_parsed = ParsedRaise("")
    /\ cpu_swapped = EmptyDict
    /\ cpu_result = CpuPending
    /\ MainIdle
    /\ ParseIdle

SpecInfer == CpuInit /\ [][CpuInference]_vars

---------------------------------------------------------------------------
(* Properties *)

Degraded == tts.set /\ Tail(tts.qwen_emo) = <<>>
Ready == tts.set /\ Tail(tts.qwen_emo) # <<>>

\* C1: a wrapper whose inner classifier could not be constructed is itself
\* constructed without an exception; every inference call on it returns
\* {calm: 1.0}, raises nothing, reaches no inner classifier and constructs
\* none; and the wrapper stays without an inner classifier for as long as
\* it lives.
C1_DegradedAlwaysNeutral ==
    /\ [](/\ (setups > 0 /\ ~ctor_ok) => (~setup_exc /\ Degraded)
          /\ (call.made /\ call.degraded) =>
                /\ call.result = Neutral
                /\ ~call.raised
                /\ ~call.inner_called
                /\ ~call.constructed)
    /\ [][(Degraded /\ setups' = setups) => tts' = tts]_vars

\* C1 witness: on a wrapper whose inner construction failed, a call with a
\* non-empty text, which a working classifier would have answered, has
\* returned the neutral result.
C1_Witness ==
    /\ setups > 0 /\ ~ctor_ok /\ Degraded
    /\ call.made /\ call.degraded
    /\ call.text # <<>>
    /\ ~call.inner.raises
    /\ call.result = Neutral

\* C2: on a wrapper that has its inner classifier, a call whose inner
\* inference raises returns {calm: 1.0} and raises nothing, a call whose
\* inner inference returns gives back just that result, and no call changes
\* the wrapper: after a failed call the next ones still delegate.
C2_ReadyAbsorbsFailures ==
    /\ [](/\ (call.made /\ ~call.degraded) =>
                /\ ~call.raised
                /\ call.inner_called
                /\ call.inner.raises => call.result = Neutral
                /\ ~call.inner.raises => call.result = call.inner.result
          /\ (setups > 0 /\ ctor_ok) => (~setup_exc /\ Ready))
    /\ [][(Ready /\ setups' = setups) => tts' = tts]_vars

\* C2 witness: after an earlier call on the same wrapper whose inner
\* inference raised, a call has delegated and returned the inner result.
C2_Witness ==
    /\ Ready /\ failed_before
    /\ call.made /\ ~call.degraded
    /\ ~call.inner.raises
    /\ call.inner_called
    /\ call.result = call.inner.result
    /\ call.result # Neutral

\* C3: whenever _parse_vector makes a non-empty sequence of the request's
\* emotion_vector, self.tts.infer is handed that sequence as emo_vector and
\* use_emo_text = False, whatever emotion_text is.
C3_ExplicitVectorPrecedence ==
    (request.made /\ emotion_values.kind = "value") =>
        /\ infer_args.called
        /\ infer_args.emo_vector = [some |-> TRUE, v |-> emotion_values.value]
        /\ ~infer_args.use_emo_text

\* C4: when _parse_vector raises on the request's emotion_vector, predict
\* ends with that exception and self.tts.infer is not called; in every other
\* case infer is called and predict returns, also when the classifier was
\* never constructed or its inference raises.
C4_OnlyParseErrorsSurface ==
    request.made =>
        /\ emotion_values.kind = "error" =>
              /\ predict_out = [status |-> "error", exc |-> emotion_values.exc]
              /\ ~infer_args.called
              /\ ~call.made
        /\ emotion_values.kind # "error" =>
              /\ predict_out.status = "returned"
              /\ infer_args.called

\* C4 witness: a request with a malformed emotion_vector and a non-blank
\* emotion_text has ended with the parse error.
C4_Witness ==
    /\ request.made
    /\ emotion_values.kind = "error"
    /\ request.emotion_text.some /\ Strip(request.emotion_text.s) # <<>>
    /\ predict_out.status = "error"
    /\ ~infer_args.called

\* What the claims call a string of commas and whitespace only (the empty
\* string included), and a blank emotion_text.
OnlyCommasAndBlanks(raw) == \A i \in 1..Len(raw.s) : raw.s[i] \in {",", WS}
BlankText(t) == \A i \in 1..Len(t.s) : t.s[i] = WS

\* A JSON array of numbers: brackets around numbers separated by commas,
\* blanks anywhere between them.
IsNumberArray(r) ==
    LET t == SelectSeq(r, LAMBDA c : c # WS)
        n == Len(t)
    IN  /\ n >= 2
        /\ t[1] = "[" /\ t[n] = "]"
        /\ \/ n = 2
           \/ /\ n % 2 = 1
              /\ \A i \in 2..(n - 1) : IF i % 2 = 0 THEN t[i] = "1.5" ELSE t[i] = ","

\* Whether some non-empty comma-separated token of r is not a number.
HasBadToken(r) ==
    LET toks == Split(r, ",")
    IN  \E k \in 1..Len(toks) :
            /\ Strip(toks[k]) # <<>>
            /\ Strip(toks[k]) # <<"1.5">>

\* C5: _parse_vector returns None, returns a value or raises
\* InvalidVectorFormat, nothing else; it raises InvalidVectorFormat on every
\* text that starts with "[" and is not a well-formed array of numbers, and
\* on every other text with a non-empty token that is not a number.
C5_OnlyInvalidVectorFormat ==
    pv_out.kind # "pending" =>
        /\ pv_out.kind = "error" => pv_out.exc = InvalidVectorFormat
        /\ LET r == Strip(pv_raw.s)
           IN  (pv_raw.some /\ r # <<>>) =>
                  /\ (r[1] = "[" /\ ~IsNumberArray(r)) => pv_out = Raise(InvalidVectorFormat)
                  /\ (r[1] # "[" /\ HasBadToken(r)) => pv_out = Raise(InvalidVectorFormat)

\* C6: for an emotion_vector that is None, empty, or commas and whitespace
\* only, _parse_vector returns None; and when emotion_text is None or blank
\* as well, self.tts.infer is handed emo_vector = None and
\* use_emo_text = False.
C6_NoSignal ==
    (request.made /\ OnlyCommasAndBlanks(request.emotion_vector)) =>
        /\ emotion_values = ReturnNone
        /\ predict_out.status = "returned"
        /\ BlankText(request.emotion_text) =>
              /\ infer_args.called
              /\ infer_args.emo_vector = NoVector
              /\ ~infer_args.use_emo_text

\* C6 witness: a request whose emotion_vector is made of a comma and a
\* blank, and whose emotion_text is a blank, has reached self.tts.infer with
\* neither a vector nor text classification.
C6_Witness ==
    /\ request.made
    /\ request.emotion_vector.some
    /\ \E i, j \in 1..Len(request.emotion_vector.s) :
          request.emotion_vector.s[i] = "," /\ request.emotion_vector.s[j] = WS
    /\ request.emotion_text.some /\ request.emotion_text.s # <<>>
    /\ BlankText(request.emotion_text)
    /\ infer_args.called
    /\ infer_args.emo_vector = NoVector
    /\ ~infer_args.use_emo_text

\* The score of a label in a raw mapping, 0.0 if missing, clamped into
\* [0.0, 1.2].
KeyOfLabel ==
    [l \in {"happy", "angry", "sad", "afraid", "disgusted", "melancholic", "surprised", "calm"} |->
        CASE l = "happy" -> "gaoxing"
          [] l = "angry" -> "fennu"
          [] l = "sad" -> "beishang"
          [] l = "afraid" -> "kongju"
          [] l = "disgusted" -> "fangan"
          [] l = "melancholic" -> "diluo"
          [] l = "surprised" -> "jingya"
          [] l = "calm" -> "ziran"]
ClampedRaw(d, l) ==
    LET k == KeyOfLabel[l]
    IN  IF k \notin DOMAIN d THEN 0
        ELSE IF d[k] < 0 THEN 0
        ELSE IF d[k] > 1200 THEN 1200
        ELSE d[k]

\* The shape every converted result has: the eight labels, each in
\* [0.0, 1.2], the labels other than calm at their clamped raw scores, and
\* not all zero.
ConvertedShape(v, d) ==
    /\ DOMAIN v = DOMAIN KeyOfLabel
    /\ \A l \in DOMAIN v : 0 <= v[l] /\ v[l] <= 1200
    /\ \A l \in DOMAIN v \ {"calm"} : v[l] = ClampedRaw(d, l)
    /\ \E l \in DOMAIN v : v[l] > 0

\* C7 as claimed: convert gives calm 1.0 whenever every label other than
\* calm clamps to <= 0, whatever calm's raw score, and calm's clamped raw
\* score otherwise.
C7_CalmWheneverOthersZero ==
    cpu_result.kind = "returned" =>
        /\ ConvertedShape(cpu_result.vector, cpu_swapped)
        /\ cpu_result.vector["calm"] =
              IF \A l \in DOMAIN KeyOfLabel \ {"calm"} : ClampedRaw(cpu_swapped, l) <= 0
              THEN 1000 ELSE ClampedRaw(cpu_swapped, "calm")

\* C7 as amended: convert gives calm 1.0 when all eight labels, calm
\* included, clamp to <= 0, and calm's clamped raw score otherwise; the
\* result has the eight labels, each in [0.0, 1.2], the others at their
\* clamped raw scores, and is never all zero.
C7_CalmWhenAllZero ==
    cpu_result.kind = "returned" =>
        /\ ConvertedShape(cpu_result.vector, cpu_swapped)
        /\ cpu_result.vector["calm"] =
              IF \A l \in DOMAIN KeyOfLabel : ClampedRaw(cpu_swapped, l) <= 0
              THEN 1000 ELSE ClampedRaw(cpu_swapped, "calm")

\* C7 witness: a raw mapping whose only positive score is calm's, below 1.0,
\* with an out-of-range score beside it, has been converted, and calm kept
\* its raw score.
C7_Witness ==
    /\ cpu_result.kind = "returned"
    /\ "ziran" \in DOMAIN cpu_swapped /\ cpu_swapped["ziran"] = 700
    /\ \E k \in DOMAIN cpu_swapped : cpu_swapped[k] < 0
    /\ \A l \in DOMAIN KeyOfLabel \ {"calm"} : ClampedRaw(cpu_swapped, l) <= 0
    /\ cpu_result.vector["calm"] = 700

\* C9: when the answer is no JSON document, the pattern scan does not
\* raise: inference goes on with the mapping of the matches, which is empty
\* when nothing matches.
C9_ScanNeverRaises ==
    (cpu_result.kind # "pending" /\ ~cpu_content.object /\ ~IsJsonScalar(cpu_content.chars)) =>
        /\ cpu_parsed.ok
        /\ cpu_result.kind = "returned"
        /\ FindIter(cpu_content.chars, 1) = <<>> => cpu_parsed.dict = EmptyDict

\* C10: when the lower-cased text holds a trigger word, the result's sad is
\* the clamped raw score of melancholic and its melancholic the clamped raw
\* score of sad; otherwise each has its own; the other six labels are what
\* they are without the swap.
C10_MelancholicSwap ==
    cpu_result.kind = "returned" =>
        LET d == cpu_parsed.dict
            v == cpu_result.vector
            trigger == \E word \in melancholic_words : Contains(Lower(cpu_text), word)
        IN  /\ trigger => /\ v["sad"] = ClampedRaw(d, "melancholic")
                          /\ v["melancholic"] = ClampedRaw(d, "sad")
            /\ ~trigger => /\ v["sad"] = ClampedRaw(d, "sad")
                           /\ v["melancholic"] = ClampedRaw(d, "melancholic")
            /\ \A l \in DOMAIN KeyOfLabel \ {"sad", "melancholic", "calm"} :
                  v[l] = ClampedRaw(d, l)
            /\ v["calm"] = IF \A l \in DOMAIN KeyOfLabel : ClampedRaw(d, l) <= 0
                           THEN 1000 ELSE ClampedRaw(d, "calm")

\* C10 witness: a text with a capitalised trigger word, and an answer with
\* sad 0.7 and melancholic 2.0, gave sad 1.2 and melancholic 0.7.
C10_Witness ==
    /\ cpu_result.kind = "returned"
    /\ \E i \in 1..Len(cpu_text) : cpu_text[i] = "Gloomy"
    /\ cpu_parsed.dict = [k \in {"beishang", "diluo"} |-> IF k = "beishang" THEN 700 ELSE 2000]
    /\ cpu_result.vector["sad"] = 1200
    /\ cpu_result.vector["melancholic"] = 700

\* C8: once setup has run, on a CPU-only and on a CUDA host alike, the
\* installed QwenEmotion is a safe wrapper around a class that is not one;
\* and _wrap_qwen_with_fallback leaves an installed class that carries the
\* marker, and the classes defined, as they are.
C8_ExactlyOneLayer ==
    /\ setups >= 1 =>
          /\ QwenEmotion # 0
          /\ classes[QwenEmotion].is_safe_wrapper
          /\ classes[QwenEmotion].wraps # 0
          /\ ~classes[classes[QwenEmotion].wraps].is_safe_wrapper
    /\ (QwenEmotion # 0 /\ classes[QwenEmotion].is_safe_wrapper) =>
          _wrap_qwen_with_fallback(Module(classes, QwenEmotion)) = Module(classes, QwenEmotion)

\* C8 witness: setup has run twice on a CUDA host, where the second run
\* found the wrapper installed, and one wrapper class exists in all.
C8_Witness ==
    /\ setups >= 2
    /\ cuda
    /\ classes[QwenEmotion].is_safe_wrapper
    /\ Cardinality({i \in 1..Len(classes) : classes[i].is_safe_wrapper}) = 1

===========================================================================
